---- MODULE Spec2Model ----
(***************************************************************************)
(* Greyscale image filters of lab0/lab.py: inversion, correlation with a   *)
(* square kernel, rounding/clipping, box blur, unsharp-mask sharpening and *)
(* Sobel edge detection.                                                   *)
(*                                                                         *)
(* Python objects are modelled as a store: `heap` holds the list objects   *)
(* (pixel lists), `dicts` the image dictionaries, each naming its pixel    *)
(* list by identity, so that aliasing and in-place mutation are visible.   *)
(* Numbers are exact rationals num/den tagged with their Python type       *)
(* ("int" or "float"); a value with root = TRUE denotes sqrt(num/den).     *)
(* Exact arithmetic agrees with Python's doubles on every rounding the     *)
(* filters do on integer images: no box sum over an odd n*n window and no  *)
(* square root of an integer lies on a .5 tie, and the double error is far *)
(* smaller than the distance to the nearest tie.                           *)
(***************************************************************************)
EXTENDS Integers, Sequences, FiniteSets, TLC

VARIABLES heap, dicts, cur, calls

vars == <<heap, dicts, cur, calls>>

\* ------------------------------------------------------------------ bounds

\* Largest height and width of the images the callers start from.
MaxDim == 2

\* Longest chain of calls made on one loaded image.
MaxCalls == 2

\* A filter or correlate is only called on an image whose samples are at
\* most MaxAbs in absolute value, over a denominator of at most MaxDen (the
\* integers of the arithmetic below then stay under 2^31).
MaxAbs == 1020

MaxDen == 4

\* ----------------------------------------------------------------- numbers

Abs(a) == IF a < 0 THEN -a ELSE a

RECURSIVE GCD(_, _)
GCD(a, b) == IF b = 0 THEN a ELSE GCD(b, a % b)

\* The rational n/d (d > 0) in lowest terms, of Python type t.
Mk(n, d, t) ==
    LET g == GCD(Abs(n), d)
    IN  IF g = 0 THEN [num |-> 0, den |-> 1, ty |-> t, root |-> FALSE]
        ELSE [num |-> n \div g, den |-> d \div g, ty |-> t, root |-> FALSE]

PyInt(k) == [num |-> k, den |-> 1, ty |-> "int", root |-> FALSE]

PyFloat(n, d) == Mk(n, d, "float")

\* Python's numeric tower: int op int is int, anything with a float is float.
Ty(a, b) == IF a.ty = "int" /\ b.ty = "int" THEN "int" ELSE "float"

\* Sums are taken over the least common denominator, which keeps the
\* intermediate integers small.
Add(a, b) ==
    IF a.den = b.den THEN Mk(a.num + b.num, a.den, Ty(a, b))
    ELSE LET g == GCD(a.den, b.den)
         IN  Mk(a.num * (b.den \div g) + b.num * (a.den \div g),
                (a.den \div g) * b.den, Ty(a, b))

Sub(a, b) == Add(a, [b EXCEPT !.num = -b.num])

Mul(a, b) == Mk(a.num * b.num, a.den * b.den, Ty(a, b))

\* v ** (1/2) for v >= 0: always a float.
Sqrt(a) == [num |-> a.num, den |-> a.den, ty |-> "float", root |-> TRUE]

\* The largest s in lo..hi with s*s <= m (binary search; lo satisfies it).
RECURSIVE FloorRoot(_, _, _)
FloorRoot(m, lo, hi) ==
    IF lo >= hi THEN lo
    ELSE LET mid == (lo + hi + 1) \div 2
         IN  IF mid * mid <= m THEN FloorRoot(m, mid, hi)
             ELSE FloorRoot(m, lo, mid - 1)

\* floor(sqrt(m)) for an integer m >= 0; 46340 is the largest integer whose
\* square is below 2^31.
ISqrt(m) == FloorRoot(m, 0, IF m < 46340 THEN m ELSE 46340)

\* Python's round(): an int is returned as is; a float goes to the nearest
\* integer, a tie to the even one.
Round(a) ==
    IF a.root
    THEN \* sqrt(m + r/d) against s + 1/2, that is m + r/d against s*s + s + 1/4
         LET m == a.num \div a.den
             r == a.num % a.den
             s == ISqrt(m)
             k == m - s * s - s
         IN  IF k < 0 THEN s
             ELSE IF k > 0 THEN s + 1
             ELSE IF 4 * r < a.den THEN s
             ELSE IF 4 * r > a.den THEN s + 1
             ELSE IF s % 2 = 0 THEN s ELSE s + 1
    ELSE LET f == a.num \div a.den
             r == a.num % a.den
         IN  IF 2 * r < a.den THEN f
             ELSE IF 2 * r > a.den THEN f + 1
             ELSE IF f % 2 = 0 THEN f ELSE f + 1

\* ------------------------------------------------------------------- store

\* A store is the pair of heap (list objects) and dicts (image dictionaries).
Store(h, d) == [heap |-> h, dicts |-> d]

\* A call's result: the store it leaves and the dictionary it returns.
Ret(S, id) == [S |-> S, ret |-> id]

NewList(S, l) == [S EXCEPT !.heap = Append(@, l)]

NewDict(S, h, w, l) ==
    [S EXCEPT !.dicts = Append(@, [height |-> h, width |-> w, pixels |-> l])]

LastList(S) == Len(S.heap)

LastDict(S) == Len(S.dicts)

Pixels(S, image) == S.heap[S.dicts[image].pixels]

\* What an observer sees of an image: its fields, its pixel values and the
\* identity of its pixel list.
View(S, image) ==
    [height |-> S.dicts[image].height,
     width  |-> S.dicts[image].width,
     pixels |-> Pixels(S, image),
     list   |-> S.dicts[image].pixels]

\* ------------------------------------------------------------ lab.py, core

in_bound(dim, s) ==
    IF s <= -1 THEN 0
    ELSE IF s >= dim THEN dim - 1
    ELSE s

\* Mutant of get_pixel: a coordinate outside the image reads as 0 (zero
\* padding) instead of the nearest edge pixel.
get_pixel_zero(S, image, x, y) ==
    IF x < 0 \/ x >= S.dicts[image].height \/ y < 0 \/ y >= S.dicts[image].width
    THEN PyInt(0)
    ELSE Pixels(S, image)[x * S.dicts[image].width + y + 1]

get_pixel(S, image, x, y) ==
    LET xx == in_bound(S.dicts[image].height, x)
        yy == in_bound(S.dicts[image].width, y)
    IN  Pixels(S, image)[xx * S.dicts[image].width + yy + 1]

\* result = {'height': ..., 'width': ..., 'pixels': pixels}: a new dictionary
\* holding a new list.
NewImage(S, image, pixels) ==
    LET S1 == NewList(S, pixels)
    IN  NewDict(S1, S.dicts[image].height, S.dicts[image].width, LastList(S1))

\* The two loops visit (x, y) in row-major order and append one value each
\* to the result's own, new list: its j-th element is the value computed at
\* x = (j - 1) \div width, y = (j - 1) % width. func is a function value,
\* applied to the colors of the image.
apply_per_pixel(S, image, func) ==
    LET h == S.dicts[image].height
        w == S.dicts[image].width
        S1 == NewImage(S, image,
                       [j \in 1..(h * w) |->
                           func[get_pixel(S, image, (j - 1) \div w,
                                          (j - 1) % w)]])
    IN  Ret(S1, LastDict(S1))

\* The colors of an image: what a per-pixel function is applied to.
Colors(S, image) == {Pixels(S, image)[j] : j \in 1..Len(Pixels(S, image))}

\* Mutant of InvertColor: 256 - c.
InvertColor_256(c) == Sub(PyInt(256), c)

InvertColor(c) == Sub(PyInt(255), c)

inverted(S, image) ==
    apply_per_pixel(S, image, [c \in Colors(S, image) |-> InvertColor(c)])

\* int(len(kernel) ** (1/2))
KernelSize(kernel) == ISqrt(Len(kernel))

\* int((kernel_size - 1)/2): int() truncates towards zero.
NumLayers(kernel_size) ==
    IF kernel_size = 0 THEN 0 ELSE (kernel_size - 1) \div 2

\* The two kernel loops at output coordinate (x, y): newpixel[i] is the
\* accumulator after the first i terms, in the order h, w of the loops.
CorrSum(S, image, kernel, ks, nl, x, y) ==
    LET newpixel[i \in 0..(ks * ks)] ==
            IF i = 0 THEN PyFloat(0, 1)
            ELSE Add(newpixel[i - 1],
                     Mul(kernel[i],
                         get_pixel(S, image, x - nl + ((i - 1) \div ks),
                                             y - nl + ((i - 1) % ks))))
    IN  newpixel[ks * ks]

\* Mutant of correlate: the result's height and width are exchanged.
correlate_swapped(S, image, kernel) ==
    LET h == S.dicts[image].height
        w == S.dicts[image].width
        kernel_size == KernelSize(kernel)
        num_layers == NumLayers(kernel_size)
        S1 == NewList(S, [j \in 1..(h * w) |->
                             CorrSum(S, image, kernel, kernel_size,
                                     num_layers, (j - 1) \div w, (j - 1) % w)])
        S2 == NewDict(S1, w, h, LastList(S1))
    IN  Ret(S2, LastDict(S2))

correlate(S, image, kernel) ==
    LET h == S.dicts[image].height
        w == S.dicts[image].width
        kernel_size == KernelSize(kernel)
        num_layers == NumLayers(kernel_size)
        S1 == NewImage(S, image,
                       [j \in 1..(h * w) |->
                           CorrSum(S, image, kernel, kernel_size, num_layers,
                                   (j - 1) \div w, (j - 1) % w)])
    IN  Ret(S1, LastDict(S1))

\* Mutant of Clip: the branch for values above 255 is missing.
Clip_nocap(pixel) ==
    IF Round(pixel) < 0 THEN PyInt(0) ELSE PyInt(Round(pixel))

\* One iteration of round_and_clip_image's loop.
Clip(pixel) ==
    IF Round(pixel) < 0 THEN PyInt(0)
    ELSE IF Round(pixel) > 255 THEN PyInt(255)
    ELSE PyInt(Round(pixel))

\* Mutant of round_and_clip_image: the clipped values go to a new image and
\* the argument is left alone.
round_and_clip_image_copy(S, image) ==
    LET S1 == NewImage(S, image,
                       [idx \in 1..Len(Pixels(S, image)) |->
                           Clip(Pixels(S, image)[idx])])
    IN  Ret(S1, LastDict(S1))

\* Overwrites the elements of the image's own pixel list and returns the
\* image it was given.
round_and_clip_image(S, image) ==
    Ret([S EXCEPT !.heap[S.dicts[image].pixels] =
                      [idx \in 1..Len(@) |-> Clip(@[idx])]],
        image)

\* --------------------------------------------------------- lab.py, filters

\* Mutant of get_blur_kernel: weights 1/n instead of 1/n**2.
get_blur_kernel_lin(n) == [j \in 1..(n * n) |-> PyFloat(1, n)]

get_blur_kernel(n) == [j \in 1..(n * n) |-> PyFloat(1, n * n)]

blurred(S, image, n, correct) ==
    LET kernel == get_blur_kernel(n)
        correlated == correlate(S, image, kernel)
    IN  IF correct THEN round_and_clip_image(correlated.S, correlated.ret)
        ELSE correlated

Min(a, b) == IF a < b THEN a ELSE b

\* zip(xs, ys)
Zip(xs, ys) == [j \in 1..Min(Len(xs), Len(ys)) |-> <<xs[j], ys[j]>>]

\* Mutant of Unsharp: 2*y - x.
Unsharp_swapped(x, y) == Sub(Mul(PyInt(2), y), x)

Unsharp(x, y) == Sub(Mul(PyInt(2), x), y)

sharpened(S, image, n) ==
    LET S0 == NewImage(S, image, <<>>)
        result == LastDict(S0)
        b == blurred(S0, image, n, FALSE)
        xy == Zip(Pixels(b.S, image), Pixels(b.S, b.ret))
        S1 == NewList(b.S, [j \in 1..Len(xy) |-> Unsharp(xy[j][1], xy[j][2])])
        S2 == [S1 EXCEPT !.dicts[result].pixels = LastList(S1)]
    IN  round_and_clip_image(S2, result)

Kx == <<PyInt(-1), PyInt(0), PyInt(1), PyInt(-2), PyInt(0), PyInt(2),
        PyInt(-1), PyInt(0), PyInt(1)>>

\* Mutant of Ky: the horizontal kernel used twice.
Ky_same == Kx

Ky == <<PyInt(-1), PyInt(-2), PyInt(-1), PyInt(0), PyInt(0), PyInt(0),
        PyInt(1), PyInt(2), PyInt(1)>>

Magnitude(x, y) == Sqrt(Add(Mul(x, x), Mul(y, y)))

\* Mutant of edges: the magnitudes are written into the pixel list the copy
\* shares with the argument instead of into a new list.
edges_shared(S, i) ==
    LET S0 == [S EXCEPT !.dicts = Append(@, S.dicts[i])]
        Oxy == LastDict(S0)
        Ox == correlate(S0, i, Kx)
        Oy == correlate(Ox.S, i, Ky)
        xy == Zip(Pixels(Oy.S, Ox.ret), Pixels(Oy.S, Oy.ret))
        S1 == [Oy.S EXCEPT !.heap[Oy.S.dicts[Oxy].pixels] =
                   [j \in 1..Len(xy) |-> Magnitude(xy[j][1], xy[j][2])]]
    IN  round_and_clip_image(S1, Oxy)

\* Oxy = i.copy() is a new dictionary that shares i's pixel list, until
\* Oxy["pixels"] is bound to the new list of magnitudes.
edges(S, i) ==
    LET S0 == [S EXCEPT !.dicts = Append(@, S.dicts[i])]
        Oxy == LastDict(S0)
        Ox == correlate(S0, i, Kx)
        Oy == correlate(Ox.S, i, Ky)
        xy == Zip(Pixels(Oy.S, Ox.ret), Pixels(Oy.S, Oy.ret))
        S1 == NewList(Oy.S,
                      [j \in 1..Len(xy) |-> Magnitude(xy[j][1], xy[j][2])])
        S2 == [S1 EXCEPT !.dicts[Oxy].pixels = LastList(S1)]
    IN  round_and_clip_image(S2, Oxy)

\* ------------------------------------------------------------------ inputs

Dims == 0..MaxDim

\* Samples of the uniform images: black, a grey, white.
UniformVals == {0, 100, 255}

\* The row of test_inverted_2.
TestRow == <<18, 69, 142, 216>>

Uniform(h, w, v) ==
    [height |-> h, width |-> w, pixels |-> [j \in 1..(h * w) |-> PyInt(v)]]

\* Black but for one white pixel, the p-th in row-major order.
OnePixel(h, w, p) ==
    [height |-> h, width |-> w,
     pixels |-> [j \in 1..(h * w) |-> IF j = p THEN PyInt(255) ELSE PyInt(0)]]

Ramp(h, w) ==
    [height |-> h, width |-> w,
     pixels |-> [j \in 1..(h * w) |-> PyInt(TestRow[((j - 1) % 4) + 1])]]

TestImages ==
    UNION {{Uniform(h, w, v) : v \in UniformVals}
           \cup {OnePixel(h, w, p) : p \in 1..(h * w)}
           \cup {Ramp(h, w)} : h \in Dims, w \in Dims}

\* Kernel sizes the callers blur and sharpen with.
BlurSizes == {1, 3}

\* Takes each pixel's left neighbour.
ShiftKernel == <<PyInt(0), PyInt(0), PyInt(0), PyInt(1), PyInt(0), PyInt(0),
                 PyInt(0), PyInt(0), PyInt(0)>>

\* Twice the centre minus the mean of its four neighbours: sums to 1.
CrossKernel == <<PyInt(0), PyFloat(-1, 4), PyInt(0),
                 PyFloat(-1, 4), PyInt(2), PyFloat(-1, 4),
                 PyInt(0), PyFloat(-1, 4), PyInt(0)>>

\* A kernel whose length is not a perfect square.
Kernel5 == <<PyFloat(1, 4), PyFloat(1, 4), PyFloat(1, 4), PyFloat(1, 4),
             PyInt(1)>>

Kernels == {ShiftKernel, CrossKernel, Kx, Kernel5}

\* ----------------------------------------------------------------- callers

Now == Store(heap, dicts)

Load(im) ==
    /\ heap = <<im.pixels>>
    /\ dicts = <<[height |-> im.height, width |-> im.width, pixels |-> 1]>>
    /\ cur = 1
    /\ calls = <<>>

Init == \E im \in TestImages : Load(im)

Fits(image) ==
    \A j \in 1..Len(Pixels(Now, image)) :
        LET p == Pixels(Now, image)[j]
        IN  p.den <= MaxDen /\ Abs(p.num) <= MaxAbs * p.den

\* The caller calls op on its current image and keeps what it returns.
Call(op, n, kernel, r) ==
    /\ heap' = r.S.heap
    /\ dicts' = r.S.dicts
    /\ cur' = r.ret
    /\ calls' = Append(calls,
                       [op |-> op, n |-> n, kernel |-> kernel,
                        arg |-> cur, res |-> r.ret,
                        pre |-> View(Now, cur),
                        argpost |-> View(r.S, cur),
                        post |-> View(r.S, r.ret),
                        outcome |-> "returned"])

Inverted ==
    /\ Len(calls) < MaxCalls
    /\ Fits(cur)
    /\ Call("inverted", 0, <<>>, inverted(Now, cur))

Blurred ==
    /\ Len(calls) < MaxCalls
    /\ Fits(cur)
    /\ \E n \in BlurSizes : Call("blurred", n, <<>>, blurred(Now, cur, n, TRUE))

Sharpened ==
    /\ Len(calls) < MaxCalls
    /\ Fits(cur)
    /\ \E n \in BlurSizes : Call("sharpened", n, <<>>, sharpened(Now, cur, n))

Edges ==
    /\ Len(calls) < MaxCalls
    /\ Fits(cur)
    /\ Call("edges", 0, <<>>, edges(Now, cur))

Correlate ==
    /\ Len(calls) < MaxCalls
    /\ Fits(cur)
    /\ \E k \in Kernels : Call("correlate", 0, k, correlate(Now, cur, k))

RoundAndClip ==
    /\ Len(calls) < MaxCalls
    /\ Call("round_and_clip_image", 0, <<>>, round_and_clip_image(Now, cur))

Next ==
    \/ Inverted
    \/ Blurred
    \/ Sharpened
    \/ Edges
    \/ Correlate
    \/ RoundAndClip

Spec == Init /\ [][Next]_vars

\* The centered-pixel tests: an 11 x 11 image, black but for one white pixel,
\* put through one filter.
CenteredDim == 11

CenteredSizes == {3, 5}

InitCentered ==
    \E p \in 1..(CenteredDim * CenteredDim) :
        Load(OnePixel(CenteredDim, CenteredDim, p))

BlurredCentered ==
    /\ calls = <<>>
    /\ \E n \in CenteredSizes :
           Call("blurred", n, <<>>, blurred(Now, cur, n, TRUE))

EdgesCentered ==
    /\ calls = <<>>
    /\ Call("edges", 0, <<>>, edges(Now, cur))

NextCentered == BlurredCentered \/ EdgesCentered

SpecCentered == InitCentered /\ [][NextCentered]_vars

\* ------------------------------------------------------------------ claims

\* The public filters.
Filters == {"inverted", "blurred", "sharpened", "edges"}

CallIds == 1..Len(calls)

\* Every sample is a Python int.
IntImage(v) ==
    \A j \in 1..Len(v.pixels) : v.pixels[j].ty = "int" /\ ~v.pixels[j].root

\* Every sample is a Python int in [0, 255].
ValidImage(v) ==
    /\ IntImage(v)
    /\ \A j \in 1..Len(v.pixels) :
           v.pixels[j].den = 1 /\ v.pixels[j].num \in 0..255

\* A non-empty image of the one int sample k.
UniformAt(v, k) ==
    /\ Len(v.pixels) > 0
    /\ \A j \in 1..Len(v.pixels) : v.pixels[j] = PyInt(k)

SameShape(v, u) ==
    /\ v.height = u.height
    /\ v.width = u.width
    /\ Len(v.pixels) = u.height * u.width

\* C1: a public filter leaves its argument as it was (same height, width,
\* pixel list and pixel values), and the image it returns has a pixel list of
\* its own.
C1_FiltersDoNotMutate ==
    \A c \in CallIds :
        calls[c].op \in Filters =>
            /\ calls[c].argpost = calls[c].pre
            /\ calls[c].res # calls[c].arg
            /\ calls[c].post.list # calls[c].pre.list

\* edges returned an image that differs from its argument.
C1_Witness ==
    \E c \in CallIds :
        /\ calls[c].op = "edges"
        /\ Len(calls[c].pre.pixels) > 1
        /\ calls[c].post.pixels # calls[c].pre.pixels

\* C2: from a loaded image (ints in [0, 255]), every image returned along a
\* chain of public filters has only int samples in [0, 255].
C2_FilterOutputsValid ==
    \A c \in CallIds :
        (\A b \in 1..c : calls[b].op \in Filters) => ValidImage(calls[c].post)

\* A chain of two filters ending in a sharpening that left a white sample.
C2_Witness ==
    /\ Len(calls) >= 2
    /\ \A b \in CallIds : calls[b].op \in Filters
    /\ calls[Len(calls)].op = "sharpened"
    /\ calls[Len(calls)].n = 3
    /\ \E j \in 1..Len(calls[Len(calls)].post.pixels) :
           calls[Len(calls)].post.pixels[j] = PyInt(255)

\* C3: correlate and the four filters return a dictionary of exactly the
\* keys height, width and pixels, with the argument's height and width and
\* height * width pixels, at every call of a chain.
C3_ShapePreserved ==
    \A c \in CallIds :
        calls[c].op \in Filters \cup {"correlate"} =>
            /\ calls[c].pre.height * calls[c].pre.width
                   = Len(calls[c].pre.pixels)
            /\ SameShape(calls[c].post, calls[c].pre)
            /\ DOMAIN dicts[calls[c].res] = {"height", "width", "pixels"}

\* A filter applied to what correlate returned for an image of several rows
\* and columns.
C3_Witness ==
    /\ Len(calls) >= 2
    /\ calls[1].op = "correlate"
    /\ calls[2].op \in Filters
    /\ calls[2].pre.height > 1
    /\ calls[2].pre.width > 1

\* C4: on an int image, inverted maps each pixel c to 255 - c in row-major
\* order, and inverting the result gives back the first image's height,
\* width and pixels.
C4_InvertInvolution ==
    \A c \in CallIds :
        (calls[c].op = "inverted" /\ IntImage(calls[c].pre)) =>
            /\ SameShape(calls[c].post, calls[c].pre)
            /\ \A j \in 1..Len(calls[c].pre.pixels) :
                   calls[c].post.pixels[j]
                       = PyInt(255 - calls[c].pre.pixels[j].num)
            /\ (c > 1 /\ calls[c - 1].op = "inverted"
                      /\ IntImage(calls[c - 1].pre)
                      /\ calls[c].pre = calls[c - 1].post) =>
                   /\ calls[c].post.pixels = calls[c - 1].pre.pixels
                   /\ calls[c].post.height = calls[c - 1].pre.height
                   /\ calls[c].post.width = calls[c - 1].pre.width

\* The row of test_inverted_2 was inverted twice.
C4_Witness ==
    /\ Len(calls) >= 2
    /\ calls[1].op = "inverted"
    /\ calls[2].op = "inverted"
    /\ calls[2].pre = calls[1].post
    /\ calls[1].pre.height > 1
    /\ calls[1].pre.width > 1
    /\ calls[1].pre.pixels[1] # calls[1].pre.pixels[2]
    /\ calls[1].post.pixels # calls[1].pre.pixels

RECURSIVE KernelSum(_, _)
KernelSum(kernel, i) ==
    IF i = 0 THEN PyInt(0) ELSE Add(KernelSum(kernel, i - 1), kernel[i])

\* An n*n kernel, n odd, whose weights sum to 1.
OddSumOne(kernel) ==
    /\ \E m \in 1..Len(kernel) : m % 2 = 1 /\ m * m = Len(kernel)
    /\ KernelSum(kernel, Len(kernel)).num = 1
    /\ KernelSum(kernel, Len(kernel)).den = 1

\* C5: for a non-empty image of one int sample v in [0, 255]: blurred
\* returns the image of the same size uniform at v, and correlate with an odd
\* square kernel summing to 1 returns an image of the same size that
\* round_and_clip_image then makes uniform at v, borders and corners included.
C5_UniformPreserved ==
    \A c \in CallIds :
        \A v \in {calls[c].pre.pixels[j].num : j \in 1..Len(calls[c].pre.pixels)}
                 \cap 0..255 :
          UniformAt(calls[c].pre, v) =>
            /\ calls[c].op = "blurred" =>
                   /\ UniformAt(calls[c].post, v)
                   /\ SameShape(calls[c].post, calls[c].pre)
            /\ (calls[c].op = "correlate" /\ OddSumOne(calls[c].kernel)) =>
                   /\ SameShape(calls[c].post, calls[c].pre)
                   /\ \A j \in 1..Len(calls[c].post.pixels) :
                          /\ calls[c].post.pixels[j].num = v
                          /\ calls[c].post.pixels[j].den = 1
                   /\ (c < Len(calls)
                       /\ calls[c + 1].op = "round_and_clip_image"
                       /\ calls[c + 1].pre = calls[c].post) =>
                          /\ UniformAt(calls[c + 1].post, v)
                          /\ SameShape(calls[c + 1].post, calls[c].pre)

\* A grey image of several rows and columns went through the kernel with
\* negative weights and was then rounded and clipped.
C5_Witness ==
    /\ Len(calls) >= 2
    /\ calls[1].op = "correlate"
    /\ calls[1].kernel = CrossKernel
    /\ OddSumOne(calls[1].kernel)
    /\ UniformAt(calls[1].pre, 100)
    /\ calls[1].pre.height > 1
    /\ calls[1].pre.width > 1
    /\ calls[2].op = "round_and_clip_image"

\* Black but for one white pixel at row r0, column c0 (counted from 0).
OnePixelAt(v, r0, c0) ==
    /\ r0 \in 0..(v.height - 1)
    /\ c0 \in 0..(v.width - 1)
    /\ v.pixels = OnePixel(v.height, v.width, r0 * v.width + c0 + 1).pixels

\* round(255 / n^2): 255 / n^2 is never on a tie for odd n.
BlockValue(n) == (2 * 255 + n * n) \div (2 * n * n)

\* C6: blurring, with an odd n, an image that is black but for one white
\* pixel at least (n-1)/2 cells from every border gives round(255/n^2) on the
\* n x n block centered on that pixel and 0 everywhere else.
C6_BlurredBlock ==
    \A c \in CallIds :
        \A r0 \in 0..(calls[c].pre.height - 1) :
            \A c0 \in 0..(calls[c].pre.width - 1) :
                LET n == calls[c].n
                    half == (n - 1) \div 2
                    pre == calls[c].pre
                    post == calls[c].post
                IN  (/\ calls[c].op = "blurred"
                     /\ n % 2 = 1
                     /\ OnePixelAt(pre, r0, c0)
                     /\ r0 >= half /\ r0 + half <= pre.height - 1
                     /\ c0 >= half /\ c0 + half <= pre.width - 1) =>
                        /\ SameShape(post, pre)
                        /\ \A j \in 1..Len(post.pixels) :
                               LET r == (j - 1) \div pre.width
                                   k == (j - 1) % pre.width
                               IN  post.pixels[j] =
                                       IF /\ Abs(r - r0) <= half
                                          /\ Abs(k - c0) <= half
                                       THEN PyInt(BlockValue(n))
                                       ELSE PyInt(0)

\* The centered-pixel image was blurred with n = 5.
C6_Witness ==
    /\ Len(calls) = 1
    /\ calls[1].op = "blurred"
    /\ calls[1].n = 5
    /\ OnePixelAt(calls[1].pre, 5, 5)
    /\ calls[1].pre.height = 11
    /\ calls[1].pre.width = 11
    /\ calls[1].post.pixels[61] = PyInt(10)

\* C7: edges of the 11 x 11 image that is black but for a white center is
\* 255 on the 8 cells around the center, 0 at the center and 0 elsewhere.
C7_EdgesCentered ==
    \A c \in CallIds :
        (/\ calls[c].op = "edges"
         /\ calls[c].pre.height = 11
         /\ calls[c].pre.width = 11
         /\ OnePixelAt(calls[c].pre, 5, 5)) =>
            /\ SameShape(calls[c].post, calls[c].pre)
            /\ \A j \in 1..Len(calls[c].post.pixels) :
                   LET r == (j - 1) \div 11
                       k == (j - 1) % 11
                   IN  calls[c].post.pixels[j] =
                           IF /\ Abs(r - 5) <= 1
                              /\ Abs(k - 5) <= 1
                              /\ ~(r = 5 /\ k = 5)
                           THEN PyInt(255)
                           ELSE PyInt(0)

\* edges was applied to the centered-pixel image.
C7_Witness ==
    /\ Len(calls) = 1
    /\ calls[1].op = "edges"
    /\ OnePixelAt(calls[1].pre, 5, 5)
    /\ calls[1].pre.height = 11
    /\ calls[1].pre.width = 11
    /\ calls[1].post.pixels[49] = PyInt(255)

PerfectSquare(m) == \E k \in 0..m : k * k = m

\* C8: correlate called with a kernel whose length is not a perfect square
\* ends in an error and returns no image (stated for the non-empty images,
\* where a truncated kernel shows in the values returned).
C8_NonSquareKernelFails ==
    \A c \in CallIds :
        (/\ calls[c].op = "correlate"
         /\ ~PerfectSquare(Len(calls[c].kernel))
         /\ Len(calls[c].pre.pixels) > 0) =>
            calls[c].outcome # "returned"

\* The two sequences hold the same numbers (5.0 and 5 are the same number).
SameValues(p, q) ==
    /\ Len(p) = Len(q)
    /\ \A j \in 1..Len(p) : p[j].num = q[j].num /\ p[j].den = q[j].den

\* C9, as claimed: round_and_clip_image never mutates its input: after the
\* call the pixel sequence of its argument is what it was before the call.
C9_QuantizerDoesNotMutate ==
    \A c \in CallIds :
        calls[c].op = "round_and_clip_image" =>
            SameValues(calls[c].argpost.pixels, calls[c].pre.pixels)

\* Rounding to the nearest integer, ties to even, then clamping to [0, 255].
Quantized(p) ==
    LET f == p.num \div p.den
        r == p.num % p.den
        q == IF 2 * r < p.den THEN f
             ELSE IF 2 * r > p.den THEN f + 1
             ELSE IF f % 2 = 0 THEN f ELSE f + 1
    IN  IF q < 0 THEN 0 ELSE IF q > 255 THEN 255 ELSE q

\* C9, amended: round_and_clip_image returns the very image it was given,
\* whose own pixel list (same list, same length, same height and width) now
\* holds at each index the rounded and clamped int of the value that was
\* there; the pixel sequence is as before when it held only ints in [0, 255].
C9_QuantizerInPlace ==
    \A c \in CallIds :
        calls[c].op = "round_and_clip_image" =>
            /\ calls[c].res = calls[c].arg
            /\ calls[c].post = calls[c].argpost
            /\ calls[c].argpost.list = calls[c].pre.list
            /\ SameShape(calls[c].argpost, calls[c].pre)
            /\ \A j \in 1..Len(calls[c].pre.pixels) :
                   calls[c].argpost.pixels[j]
                       = PyInt(Quantized(calls[c].pre.pixels[j]))
            /\ ValidImage(calls[c].pre) =>
                   calls[c].argpost.pixels = calls[c].pre.pixels

\* round_and_clip_image was given what correlate returned, and changed it.
C9_Witness ==
    \E c \in CallIds :
        /\ calls[c].op = "round_and_clip_image"
        /\ c > 1
        /\ calls[c - 1].op = "correlate"
        /\ ~ValidImage(calls[c].pre)
        /\ ~SameValues(calls[c].argpost.pixels, calls[c].pre.pixels)

\* The sample of v at row r, column k, rows and columns outside the image
\* taking the nearest one inside.
Replicated(v, r, k) ==
    LET rr == IF r < 0 THEN 0 ELSE IF r > v.height - 1 THEN v.height - 1 ELSE r
        kk == IF k < 0 THEN 0 ELSE IF k > v.width - 1 THEN v.width - 1 ELSE k
    IN  v.pixels[rr * v.width + kk + 1].num

\* The sum of the n x n window of v centered on (r, k); i counts its cells.
RECURSIVE WindowSum(_, _, _, _, _)
WindowSum(v, n, r, k, i) ==
    IF i = 0 THEN 0
    ELSE WindowSum(v, n, r, k, i - 1)
         + Replicated(v, r - ((n - 1) \div 2) + ((i - 1) \div n),
                         k - ((n - 1) \div 2) + ((i - 1) % n))

\* C10: on a valid image, each pixel of sharpened(I, n), n odd, is the int
\* clamp(round(2 * I[p] - B[p])), B[p] being the exact mean of the n x n
\* window around p; and sharpened(I, 1) has the pixels of I.
C10_SharpenedFormula ==
    \A c \in CallIds :
        (/\ calls[c].op = "sharpened"
         /\ calls[c].n % 2 = 1
         /\ ValidImage(calls[c].pre)) =>
            LET n == calls[c].n
                pre == calls[c].pre
                post == calls[c].post
            IN  /\ SameShape(post, pre)
                /\ \A j \in 1..Len(post.pixels) :
                       post.pixels[j] =
                           PyInt(Quantized(
                               [num |-> 2 * pre.pixels[j].num * n * n
                                        - WindowSum(pre, n,
                                                    (j - 1) \div pre.width,
                                                    (j - 1) % pre.width,
                                                    n * n),
                                den |-> n * n]))
                /\ n = 1 => post.pixels = pre.pixels

\* A 3 x 3 sharpening that changed a sample to a value strictly between
\* black and white.
C10_Witness ==
    \E c \in CallIds :
        /\ calls[c].op = "sharpened"
        /\ calls[c].n = 3
        /\ ValidImage(calls[c].pre)
        /\ \E j \in 1..Len(calls[c].post.pixels) :
               /\ calls[c].post.pixels[j] # calls[c].pre.pixels[j]
               /\ calls[c].post.pixels[j].num \in 1..254

====
